---------------------------- MODULE Spec2Model ----------------------------
(***************************************************************************)
(* Model of the DOCX templating engine of billing.py: DocxTemplateFiller. *)
(* Text is a sequence of one-character strings, a paragraph a sequence of *)
(* runs, a cell a sequence of paragraphs, a row a record with its cells,  *)
(* and a table the ordered child list of its w:tbl element.  Offsets such *)
(* as i, end_idx and insert_pos are zero-based, as in the Python code.    *)
(***************************************************************************)
EXTENDS Integers, Sequences, FiniteSets, TLC

(***************************************************************************)
(* Character classes of the three regular expressions.                     *)
(***************************************************************************)
Letters ==
    {"a","b","c","d","e","f","g","h","i","j","k","l","m","n","o","p","q",
     "r","s","t","u","v","w","x","y","z",
     "A","B","C","D","E","F","G","H","I","J","K","L","M","N","O","P","Q",
     "R","S","T","U","V","W","X","Y","Z"}

DigitChars == {"0","1","2","3","4","5","6","7","8","9"}

\* [a-zA-Z0-9_]
NameChars == Letters \cup DigitChars \cup {"_"}

\* [a-zA-Z0-9_\.]
PathChars == NameChars \cup {"."}

\* \s
SpaceChars == {" ", "\t", "\n", "\r"}

\* One compiled pattern: "{{" \s* sigil (cls)+ \s* "}}"; sigil "" means none.
\* PLACEHOLDER with a class that also takes the sigils, [a-zA-Z0-9_\.#/]
PLACEHOLDER_AnySigil == [sigil |-> "", cls |-> PathChars \cup {"#", "/"}]

PLACEHOLDER == [sigil |-> "", cls |-> PathChars]

SECTION_START == [sigil |-> "#", cls |-> NameChars]

SECTION_END == [sigil |-> "/", cls |-> NameChars]

(***************************************************************************)
(* Regular-expression matching.  The classes \s, the sigil, the name       *)
(* class and the braces are pairwise disjoint, so the greedy quantifiers   *)
(* never backtrack and a match at a position is unique.                    *)
(***************************************************************************)
RECURSIVE SkipWhile(_, _, _)
\* the first position >= p of s whose character is not in cls (Len(s)+1 if none)
SkipWhile(s, p, cls) ==
    IF p <= Len(s) /\ s[p] \in cls THEN SkipWhile(s, p + 1, cls) ELSE p

\* re.match of pat at position p of s: [ok, stop (first position after the
\* match), grp (group 1)]
MatchAt(pat, s, p) ==
    LET none == [ok |-> FALSE, stop |-> p, grp |-> << >>]
        p1 == SkipWhile(s, p + 2, SpaceChars)
        p2 == IF pat.sigil = "" THEN p1 ELSE p1 + 1
        p3 == SkipWhile(s, p2, pat.cls)
        p4 == SkipWhile(s, p3, SpaceChars)
    IN  IF ~(p + 1 <= Len(s) /\ s[p] = "{" /\ s[p + 1] = "{") THEN none
        ELSE IF pat.sigil # "" /\ ~(p1 <= Len(s) /\ s[p1] = pat.sigil) THEN none
        ELSE IF p3 = p2 THEN none
        ELSE IF ~(p4 + 1 <= Len(s) /\ s[p4] = "}" /\ s[p4 + 1] = "}") THEN none
        ELSE [ok |-> TRUE, stop |-> p4 + 2, grp |-> SubSeq(s, p2, p3 - 1)]

RECURSIVE SearchFrom(_, _, _)
\* pat.search(s): the leftmost match at a position >= p
SearchFrom(pat, s, p) ==
    IF p > Len(s) THEN [ok |-> FALSE, stop |-> p, grp |-> << >>]
    ELSE LET m == MatchAt(pat, s, p)
         IN  IF m.ok THEN m ELSE SearchFrom(pat, s, p + 1)

Search(pat, s) == SearchFrom(pat, s, 1)

RECURSIVE SubEmpty(_, _, _)
\* pat.sub("", s) from position p on: every non-overlapping match, leftmost
\* first, is deleted
SubEmpty(pat, s, p) ==
    IF p > Len(s) THEN << >>
    ELSE LET m == MatchAt(pat, s, p)
         IN  IF m.ok THEN SubEmpty(pat, s, m.stop)
             ELSE <<s[p]>> \o SubEmpty(pat, s, p + 1)

(***************************************************************************)
(* Context values: the JSON values a context can hold.  A mapping is the   *)
(* insertion-ordered sequence of its [k, v] pairs, as a Python dict is.    *)
(***************************************************************************)
StrV(s) == [t |-> "str", v |-> s]

NumV(n) == [t |-> "num", v |-> n]

ListV(l) == [t |-> "list", v |-> l]

MapV(m) == [t |-> "map", v |-> m]

\* isinstance(cur, dict)
IsDict(val) == val.t = "map"

HasKey(m, key) == \E n \in 1..Len(m) : m[n].k = key

\* dict.get(key, default) on the pair sequence m
DictGet(m, key, default) ==
    IF HasKey(m, key)
    THEN m[CHOOSE n \in 1..Len(m) : m[n].k = key].v
    ELSE default

RECURSIVE Digits(_)
\* str(n) of a natural number
Digits(n) ==
    LET d == <<"0","1","2","3","4","5","6","7","8","9">>
    IN  IF n < 10 THEN <<d[n + 1]>> ELSE Digits(n \div 10) \o <<d[(n % 10) + 1]>>

RECURSIVE Repr(_)
RECURSIVE ReprItems(_, _)
RECURSIVE ReprPairs(_, _)
\* repr(val): strings in single quotes (the modelled strings hold no quote
\* and no backslash), lists and dicts as Python prints them
Repr(val) ==
    CASE val.t = "str" -> <<"'">> \o val.v \o <<"'">>
      [] val.t = "num" -> Digits(val.v)
      [] val.t = "list" -> <<"[">> \o ReprItems(val.v, 1) \o <<"]">>
      [] val.t = "map" -> <<"{">> \o ReprPairs(val.v, 1) \o <<"}">>

ReprItems(l, n) ==
    IF n > Len(l) THEN << >>
    ELSE (IF n > 1 THEN <<",", " ">> ELSE << >>) \o Repr(l[n]) \o ReprItems(l, n + 1)

ReprPairs(m, n) ==
    IF n > Len(m) THEN << >>
    ELSE (IF n > 1 THEN <<",", " ">> ELSE << >>)
         \o <<"'">> \o m[n].k \o <<"'", ":", " ">> \o Repr(m[n].v)
         \o ReprPairs(m, n + 1)

\* str(val)
PyStr(val) == IF val.t = "str" THEN val.v ELSE Repr(val)

RECURSIVE SplitDot(_, _, _)
\* path.split("."): the segments of s from position p on, acc the segment
\* being read
SplitDot(s, p, acc) ==
    IF p > Len(s) THEN <<acc>>
    ELSE IF s[p] = "." THEN <<acc>> \o SplitDot(s, p + 1, << >>)
    ELSE SplitDot(s, p + 1, Append(acc, s[p]))

RECURSIVE LookupWalk_NoneDefault(_, _, _)
\* _lookup with cur.get(part), whose default is None
LookupWalk_NoneDefault(cur, parts, n) ==
    IF n > Len(parts) THEN PyStr(cur)
    ELSE IF IsDict(cur)
         THEN LookupWalk_NoneDefault(
                  DictGet(cur.v, parts[n], StrV(<<"N", "o", "n", "e">>)), parts, n + 1)
         ELSE << >>

RECURSIVE LookupWalk(_, _, _)
\* the loop of _lookup over the segments parts[n..]
LookupWalk(cur, parts, n) ==
    IF n > Len(parts) THEN PyStr(cur)
    ELSE IF IsDict(cur)
         THEN LookupWalk(DictGet(cur.v, parts[n], StrV(<< >>)), parts, n + 1)
         ELSE << >>

\* _lookup(path, data)
Lookup(path, data) == LookupWalk(MapV(data), SplitDot(path, 1, << >>), 1)

RECURSIVE ReplaceFrom(_, _, _)
\* PLACEHOLDER.sub(lambda m: _lookup(m.group(1), ctx), s) from position p on
ReplaceFrom(s, data, p) ==
    IF p > Len(s) THEN << >>
    ELSE LET m == MatchAt(PLACEHOLDER, s, p)
         IN  IF m.ok THEN Lookup(m.grp, data) \o ReplaceFrom(s, data, m.stop)
             ELSE <<s[p]>> \o ReplaceFrom(s, data, p + 1)

\* _replace_placeholders(s, ctx)
ReplacePlaceholders(s, data) == ReplaceFrom(s, data, 1)

(***************************************************************************)
(* Paragraphs, cells and rows.                                             *)
(***************************************************************************)
RECURSIVE Join(_)
\* "".join(parts)
Join(parts) == IF parts = << >> THEN << >> ELSE Head(parts) \o Join(Tail(parts))

\* "".join(run.text for run in paragraph.runs)
ParaText(par) == Join(par)

\* _replace_in_paragraph that adds the new run without removing the old ones
ReplaceInParagraph_KeepRuns(par, data) ==
    IF Len(par) = 0 THEN par
    ELSE LET text == Join(par)
             replaced == ReplacePlaceholders(text, data)
         IN  IF replaced # text THEN Append(par, replaced) ELSE par

\* _replace_in_paragraph(paragraph, ctx)
ReplaceInParagraph(par, data) ==
    IF Len(par) = 0 THEN par
    ELSE LET text == ParaText(par)
             replaced == ReplacePlaceholders(text, data)
         IN  IF replaced # text THEN <<replaced>> ELSE par

\* _strip_markers_in_paragraph without the SECTION_END substitution
StripMarkersInParagraph_StartOnly(par) ==
    <<SubEmpty(SECTION_START, Join(par), 1)>>

\* _strip_markers_in_paragraph without the SECTION_START substitution
StripMarkersInParagraph_EndOnly(par) ==
    <<SubEmpty(SECTION_END, Join(par), 1)>>

\* _strip_markers_in_paragraph(paragraph)
StripMarkersInParagraph(par) ==
    <<SubEmpty(SECTION_END, SubEmpty(SECTION_START, ParaText(par), 1), 1)>>

\* the text of every paragraph, for cell in row.cells for p in cell.paragraphs
CellTexts(cells) ==
    [c \in 1..Len(cells) |-> [q \in 1..Len(cells[c]) |-> ParaText(cells[c][q])]]

\* for cell in row.cells: for p in cell.paragraphs: _replace_in_paragraph(p, data)
ReplaceInCells(cells, data) ==
    [c \in 1..Len(cells) |->
        [q \in 1..Len(cells[c]) |-> ReplaceInParagraph(cells[c][q], data)]]

\* for cell in tr.cells: for p in cell.paragraphs: _strip_markers_in_paragraph(p)
StripCells(cells) ==
    [c \in 1..Len(cells) |->
        [q \in 1..Len(cells[c]) |-> StripMarkersInParagraph(cells[c][q])]]

RECURSIVE JoinNL(_)
\* "\n".join(parts)
JoinNL(parts) ==
    IF parts = << >> THEN << >>
    ELSE IF Len(parts) = 1 THEN parts[1]
    ELSE parts[1] \o <<"\n">> \o JoinNL(Tail(parts))

\* _row_text(row)
RowText(row) == JoinNL(Join(CellTexts(row.cells)))

(***************************************************************************)
(* The table element.  Its child list starts with the two property nodes   *)
(* every w:tbl carries; rows are the children of kind "tr".  id is the     *)
(* identity of the XML element; item and src record, for a clone, the      *)
(* number of the item it was made for and the id of its template row.      *)
(***************************************************************************)
Node(kind) == [kind |-> kind, id |-> 0, cells |-> << >>, item |-> 0, src |-> 0]

Row(id, cells) == [kind |-> "tr", id |-> id, cells |-> cells, item |-> 0, src |-> 0]

\* the children python-docx gives a table before its rows
TblProps == <<Node("tblPr"), Node("tblGrid")>>

IsRow(node) == node.kind = "tr"

\* list(table.rows)
TableRows(children) == SelectSeq(children, IsRow)

\* table._tbl.append(element) in place of the insert
InsertChild_Append(children, pos, node) == Append(children, node)

\* table._tbl.insert(pos, element), pos a zero-based child index
InsertChild(children, pos, node) ==
    IF pos >= Len(children) THEN Append(children, node)
    ELSE SubSeq(children, 1, pos) \o <<node>> \o SubSeq(children, pos + 1, Len(children))

\* table._tbl.remove(element) for every element whose id is in ids
RemoveChildren(children, ids) ==
    LET Keep(node) == ~(IsRow(node) /\ node.id \in ids)
    IN  SelectSeq(children, Keep)

\* _replace_in_paragraph on every cell paragraph of every row in children
ReplaceInRows(children, data) ==
    [n \in 1..Len(children) |->
        IF IsRow(children[n])
        THEN [children[n] EXCEPT !.cells = ReplaceInCells(@, data)]
        ELSE children[n]]

\* _strip_markers_in_paragraph on every cell paragraph of the rows in ids
StripRows(children, ids) ==
    [n \in 1..Len(children) |->
        IF IsRow(children[n]) /\ children[n].id \in ids
        THEN [children[n] EXCEPT !.cells = StripCells(@)]
        ELSE children[n]]

\* {**item, **ctx}: the values of ctx win
Merge_OuterWins(c, it) ==
    LET New(pair) == ~HasKey(c, pair.k)
    IN  c \o SelectSeq(it, New)

\* {**ctx, **item}: the keys of ctx keep their place, item's values win,
\* item's other keys follow
Merge(c, it) ==
    LET New(pair) == ~HasKey(c, pair.k)
    IN  [n \in 1..Len(c) |-> [k |-> c[n].k, v |-> DictGet(it, c[n].k, c[n].v)]]
        \o SelectSeq(it, New)

\* _clone_row(table, tr) followed by the substitution of the clone's
\* paragraphs with the merged context
MakeClone(tr, id, k, merged) ==
    [kind |-> "tr", id |-> id, cells |-> ReplaceInCells(tr.cells, merged),
     item |-> k, src |-> tr.id]

RECURSIVE FindEnd(_, _, _)
\* the inner while loop: the first index >= j whose row's first end marker
\* carries section_name, -1 (None) when there is none
FindEnd(rows, section_name, j) ==
    IF j >= Len(rows) THEN -1
    ELSE LET end == Search(SECTION_END, RowText(rows[j + 1]))
         IN  IF end.ok /\ end.grp = section_name THEN j
             ELSE FindEnd(rows, section_name, j + 1)

\* rows[i + 1 : end_idx] or [rows[i]]
TemplateRows(rows, i0, end_idx) ==
    IF end_idx > i0 + 1 THEN SubSeq(rows, i0 + 2, end_idx) ELSE <<rows[i0 + 1]>>

\* what "for item in items" iterates over; a number is not iterable
Iterable(val) == val.t # "num"

IterItems(val) ==
    CASE val.t = "list" -> val.v
      [] val.t = "str" -> [n \in 1..Len(val.v) |-> StrV(<<val.v[n]>>)]
      [] val.t = "map" -> [n \in 1..Len(val.v) |-> StrV(val.v[n].k)]
      [] OTHER -> << >>

RECURSIVE EmitRows(_, _, _, _, _, _, _)
\* the inner for loop over template_rows[r..] for item number k
EmitRows(children, template_rows, r, k, merged, insert_pos, nid) ==
    IF r > Len(template_rows)
    THEN [children |-> children, insert_pos |-> insert_pos, nid |-> nid]
    ELSE EmitRows(InsertChild(children, insert_pos,
                              MakeClone(template_rows[r], nid, k, merged)),
                  template_rows, r + 1, k, merged, insert_pos + 1, nid + 1)

RECURSIVE EmitItems(_, _, _, _, _, _, _)
\* the for loop over items[k..]; raised tells that {**ctx, **item} raised
\* TypeError on an item that is not a mapping
EmitItems(children, template_rows, items, k, data, insert_pos, nid) ==
    IF k > Len(items)
    THEN [children |-> children, insert_pos |-> insert_pos, nid |-> nid,
          raised |-> FALSE]
    ELSE IF ~IsDict(items[k])
    THEN [children |-> children, insert_pos |-> insert_pos, nid |-> nid,
          raised |-> TRUE]
    ELSE LET e == EmitRows(children, template_rows, 1, k,
                           Merge(data, items[k].v), insert_pos, nid)
         IN  EmitItems(e.children, template_rows, items, k + 1, data,
                       e.insert_pos, e.nid)

Ids(rows) == [n \in 1..Len(rows) |-> rows[n].id]

Range(s) == {s[n] : n \in 1..Len(s)}

\* lines 174-193 of _expand_table_sections: strip the template rows, then
\* insert the clones of every item
Expansion(children, i0, end_idx, section_name, data, nid) ==
    LET rows == TableRows(children)
        tids == Ids(TemplateRows(rows, i0, end_idx))
        stripped == StripRows(children, Range(tids))
        template_rows == TemplateRows(TableRows(stripped), i0, end_idx)
        items == DictGet(data, section_name, ListV(<< >>))
    IN  IF ~Iterable(items)
        THEN [children |-> stripped, insert_pos |-> end_idx + 1, nid |-> nid,
              raised |-> TRUE]
        ELSE EmitItems(stripped, template_rows, IterItems(items), 1, data,
                       end_idx + 1, nid)

(***************************************************************************)
(* Bounds and inputs.                                                      *)
(***************************************************************************)
\* the largest number of rows of the template table
MaxRows == 4

LB == <<"{", "{">>

RB == <<"}", "}">>

\* the rows a template table is made of, each the cells of one row, a cell
\* its paragraphs, a paragraph its runs
RowKinds == <<
    \* {{ #a }}{{x}}
    << << <<LB \o <<" ", "#", "a", " ">> \o RB \o LB \o <<"x">> \o RB>> >> >>,
    \* {{/a}}
    << << <<LB \o <<"/", "a">> \o RB>> >> >>,
    \* two cells: {{x}} split over two runs, and {{y}}
    << << <<LB \o <<"x">>, RB>> >>, << <<LB \o <<"y">> \o RB>> >> >>,
    \* {{#b}}
    << << <<LB \o <<"#", "b">> \o RB>> >> >>,
    \* {{/b}}{{/a}}
    << << <<LB \o <<"/", "b">> \o RB \o LB \o <<"/", "a">> \o RB>> >> >>
>>

Pair(k, v) == [k |-> k, v |-> v]

\* the contexts fill is called with; a and b are the section names
Contexts == <<
    \* items for a, x defined by the document and by every item, y by the
    \* document and by the second item only
    << Pair(<<"x">>, StrV(<<"O">>)), Pair(<<"y">>, NumV(7)),
       Pair(<<"m">>, MapV(<< Pair(<<"n">>, StrV(<<"V">>)) >>)),
       Pair(<<"a">>, ListV(<< MapV(<< Pair(<<"x">>, StrV(<<"A">>)) >>),
                              MapV(<< Pair(<<"x">>, StrV(<<"B">>)),
                                      Pair(<<"y">>, StrV(<<"Z">>)) >>) >>)) >>,
    \* a is a list with an element that is not a mapping, b is a string
    << Pair(<<"y">>, StrV(<<"Y">>)),
       Pair(<<"a">>, ListV(<< MapV(<< Pair(<<"x">>, StrV(<<"A">>)) >>), NumV(5) >>)),
       Pair(<<"b">>, StrV(<<"s">>)) >>,
    \* a is a number, b is a mapping
    << Pair(<<"a">>, NumV(5)),
       Pair(<<"b">>, MapV(<< Pair(<<"x">>, StrV(<<"A">>)) >>)) >>,
    \* a is absent, b is the empty mapping
    << Pair(<<"b">>, MapV(<< >>)) >>,
    \* values that themselves hold template syntax
    << Pair(<<"x">>, StrV(LB \o <<"y">> \o RB)), Pair(<<"y">>, StrV(<<"Z">>)),
       Pair(<<"a">>, ListV(<< MapV(<< Pair(<<"x">>, StrV(LB \o <<"/", "a">> \o RB)) >>) >>)) >>
>>

\* the body paragraphs of the template
Bodies == <<
    \* No: {{x}} in two runs
    << <<<<"N", "o", ":", " ">>, LB \o <<"x">> \o RB>> >>,
    \* {{{{x}}}}
    << <<LB \o LB \o <<"x">> \o RB \o RB>> >>
>>

\* the header paragraphs of the template: H{{ y }}
HeaderParas == << <<<<"H">> \o LB \o <<" ", "y", " ">> \o RB>> >>

\* the footer paragraphs of the template: one paragraph without runs
FooterParas == << << >> >>

\* the paths _lookup is called with
Paths == <<
    <<"x">>, <<"y">>, <<"a">>, <<"m">>, <<"m", ".", "n">>, <<"m", ".", "z">>,
    <<"m", ".", "n", ".", "z">>, <<"x", ".", "n">>, <<"q">>, <<"q", ".", "n">>,
    <<".">>, <<"m", ".">>, <<"a", ".", "x">>
>>

(***************************************************************************)
(* State.                                                                  *)
(***************************************************************************)
VARIABLES
    tbl,      \* the children of the table element
    body,     \* the paragraphs of the document body
    hdr,      \* the paragraphs of the section's header
    ftr,      \* the paragraphs of the section's footer
    cid,      \* which of Contexts is the context passed to fill
    pc,       \* where fill stands: "expand", "headers", "body", "done", "failed"
    i,        \* the scan index of _expand_table_sections
    nextId,   \* the identity the next cloned row gets
    err,      \* the exception fill raised, "" when none
    fillNo,   \* the number of the current call of fill
    kinds,    \* which of RowKinds each row of the template is
    bid,      \* which of Bodies the body of the template is
    prev,     \* history: the document when the current call of fill began
    log,      \* history: one record per expanded section
    lkPath,   \* the path _lookup is called with
    lkRes     \* the result of that call, <<"?">> before the call

vars == <<tbl, body, hdr, ftr, cid, pc, i, nextId, err, fillNo, kinds, bid, prev, log,
          lkPath, lkRes>>

\* the context passed to fill
ctx == Contexts[cid]

\* the template as loaded
tpl ==
    [rows |-> [r \in 1..Len(kinds) |-> Row(r, RowKinds[kinds[r]])],
     body |-> Bodies[bid], hdr |-> HeaderParas, ftr |-> FooterParas]

\* the texts fill can change: every paragraph's text and the rows
Snapshot(t, b, h, f) ==
    [rows |-> [n \in 1..Len(TableRows(t)) |-> CellTexts(TableRows(t)[n].cells)],
     body |-> [n \in 1..Len(b) |-> ParaText(b[n])],
     hdr |-> [n \in 1..Len(h) |-> ParaText(h[n])],
     ftr |-> [n \in 1..Len(f) |-> ParaText(f[n])]]

\* DocxTemplateFiller(template_path) followed by the call fill(context)
Init ==
    /\ cid \in 1..Len(Contexts)
    /\ bid \in IF cid = 1 THEN 1..Len(Bodies) ELSE {1}
    /\ \E n \in 0..MaxRows : kinds \in [1..n -> 1..Len(RowKinds)]
    /\ tbl = TblProps \o tpl.rows
    /\ body = tpl.body
    /\ hdr = HeaderParas
    /\ ftr = FooterParas
    /\ pc = "expand"
    /\ i = 0
    /\ nextId = MaxRows + 1
    /\ err = ""
    /\ fillNo = 1
    /\ prev = Snapshot(tbl, body, hdr, ftr)
    /\ log = << >>
    /\ lkPath = << >>
    /\ lkRes = <<"?">>

(***************************************************************************)
(* _expand_table_sections: one action per iteration of the while loop.     *)
(***************************************************************************)
\* the first start marker of the row at the scan index
StartOf(children, i0) == Search(SECTION_START, RowText(TableRows(children)[i0 + 1]))

\* the scan resuming at the start row's old index
ResumeIndex_Stay(insert_pos, i0, end_idx) == i0

\* line 200: where the scan resumes after an expansion
ResumeIndex(insert_pos, i0, end_idx) == insert_pos - (end_idx - i0 + 1)

\* lines 152-154: the row has no start marker
ScanNoStart ==
    /\ pc = "expand"
    /\ i < Len(TableRows(tbl))
    /\ ~StartOf(tbl, i).ok
    /\ i' = i + 1
    /\ UNCHANGED <<tbl, body, hdr, ftr, cid, pc, nextId, err, fillNo, kinds, bid, prev,
                   log, lkPath, lkRes>>

\* lines 169-172: no matching end marker
ScanUnmatched ==
    /\ pc = "expand"
    /\ i < Len(TableRows(tbl))
    /\ StartOf(tbl, i).ok
    /\ FindEnd(TableRows(tbl), StartOf(tbl, i).grp, i + 1) = -1
    /\ i' = i + 1
    /\ UNCHANGED <<tbl, body, hdr, ftr, cid, pc, nextId, err, fillNo, kinds, bid, prev,
                   log, lkPath, lkRes>>

\* lines 174-200: the section is expanded
ScanExpand ==
    /\ pc = "expand"
    /\ i < Len(TableRows(tbl))
    /\ StartOf(tbl, i).ok
    /\ LET rows == TableRows(tbl)
           section_name == StartOf(tbl, i).grp
           end_idx == FindEnd(rows, section_name, i + 1)
       IN  /\ end_idx # -1
           /\ LET e == Expansion(tbl, i, end_idx, section_name, ctx, nextId)
                  block == Ids(SubSeq(rows, i + 1, end_idx + 1))
              IN  /\ ~e.raised
                  /\ tbl' = RemoveChildren(e.children, Range(block))
                  /\ i' = ResumeIndex(e.insert_pos, i, end_idx)
                  /\ nextId' = e.nid
                  /\ log' = Append(log,
                        [fill |-> fillNo, name |-> section_name, block |-> block,
                         template |-> Ids(TemplateRows(rows, i, end_idx)),
                         clones |-> [n \in 1..(e.nid - nextId) |-> nextId + n - 1]])
    /\ UNCHANGED <<body, hdr, ftr, cid, pc, err, fillNo, kinds, bid, prev, lkPath, lkRes>>

\* lines 174-193 when the section's value is not a list of mappings: the
\* TypeError leaves fill with the table as it stands
ScanExpandRaise ==
    /\ pc = "expand"
    /\ i < Len(TableRows(tbl))
    /\ StartOf(tbl, i).ok
    /\ LET rows == TableRows(tbl)
           section_name == StartOf(tbl, i).grp
           end_idx == FindEnd(rows, section_name, i + 1)
       IN  /\ end_idx # -1
           /\ LET e == Expansion(tbl, i, end_idx, section_name, ctx, nextId)
              IN  /\ e.raised
                  /\ tbl' = e.children
                  /\ nextId' = e.nid
    /\ pc' = "failed"
    /\ err' = "TypeError"
    /\ UNCHANGED <<body, hdr, ftr, cid, i, fillNo, kinds, bid, prev, log, lkPath, lkRes>>

(***************************************************************************)
(* The substitution passes of fill.                                        *)
(***************************************************************************)
\* _process_tables, lines 139-143, once the scan of the table has ended
ProcessTableCells ==
    /\ pc = "expand"
    /\ i >= Len(TableRows(tbl))
    /\ tbl' = ReplaceInRows(tbl, ctx)
    /\ pc' = "headers"
    /\ UNCHANGED <<body, hdr, ftr, cid, i, nextId, err, fillNo, kinds, bid, prev, log,
                   lkPath, lkRes>>

\* _replace_in_headers_footers
ReplaceInHeadersFooters ==
    /\ pc = "headers"
    /\ hdr' = [n \in 1..Len(hdr) |-> ReplaceInParagraph(hdr[n], ctx)]
    /\ ftr' = [n \in 1..Len(ftr) |-> ReplaceInParagraph(ftr[n], ctx)]
    /\ pc' = "body"
    /\ UNCHANGED <<tbl, body, cid, i, nextId, err, fillNo, kinds, bid, prev, log,
                   lkPath, lkRes>>

\* _replace_in_body: the body paragraphs, then the cells of the body's tables
ReplaceInBody ==
    /\ pc = "body"
    /\ body' = [n \in 1..Len(body) |-> ReplaceInParagraph(body[n], ctx)]
    /\ tbl' = ReplaceInRows(tbl, ctx)
    /\ pc' = "done"
    /\ UNCHANGED <<hdr, ftr, cid, i, nextId, err, fillNo, kinds, bid, prev, log,
                   lkPath, lkRes>>

\* fill(context) called a second time, on the filled document
FillAgain ==
    /\ pc = "done"
    /\ fillNo = 1
    /\ fillNo' = fillNo + 1
    /\ prev' = Snapshot(tbl, body, hdr, ftr)
    /\ pc' = "expand"
    /\ i' = 0
    /\ UNCHANGED <<tbl, body, hdr, ftr, cid, nextId, err, kinds, bid, log, lkPath, lkRes>>

Next ==
    \/ ScanNoStart
    \/ ScanUnmatched
    \/ ScanExpand
    \/ ScanExpandRaise
    \/ ProcessTableCells
    \/ ReplaceInHeadersFooters
    \/ ReplaceInBody
    \/ FillAgain

Spec == Init /\ [][Next]_vars

(***************************************************************************)
(* _lookup on its own: one call per behaviour.                             *)
(***************************************************************************)
InitLookup ==
    /\ cid \in 1..Len(Contexts)
    /\ kinds = << >>
    /\ bid = 1
    /\ tbl = TblProps
    /\ body = tpl.body
    /\ hdr = << >>
    /\ ftr = << >>
    /\ pc = "lookup"
    /\ i = 0
    /\ nextId = 1
    /\ err = ""
    /\ fillNo = 0
    /\ prev = Snapshot(tbl, body, hdr, ftr)
    /\ log = << >>
    /\ \E n \in 1..Len(Paths) : lkPath = Paths[n]
    /\ lkRes = <<"?">>

\* the call _lookup(path, ctx)
LookupCall ==
    /\ pc = "lookup"
    /\ lkRes' = Lookup(lkPath, ctx)
    /\ pc' = "returned"
    /\ UNCHANGED <<tbl, body, hdr, ftr, cid, i, nextId, err, fillNo, kinds, bid, prev,
                   log, lkPath>>

NextLookup == LookupCall

SpecLookup == InitLookup /\ [][NextLookup]_vars

(***************************************************************************)
(* Vocabulary of the properties.                                           *)
(***************************************************************************)
\* the section names the templates use
SectionNames == {<<"a">>, <<"b">>}

RECURSIVE HasMarkerFrom(_, _, _, _)
\* whether s holds, from position p on, a match of pat whose group 1 is name
HasMarkerFrom(pat, s, name, p) ==
    IF p > Len(s) THEN FALSE
    ELSE LET m == MatchAt(pat, s, p)
         IN  IF m.ok THEN (m.grp = name \/ HasMarkerFrom(pat, s, name, m.stop))
             ELSE HasMarkerFrom(pat, s, name, p + 1)

HasMarker(pat, s, name) == HasMarkerFrom(pat, s, name, 1)

\* the row text holds a start (an end) marker for name, anywhere
HasStart(row, name) == HasMarker(SECTION_START, RowText(row), name)

HasEnd(row, name) == HasMarker(SECTION_END, RowText(row), name)

\* the row text holds a section marker of any name
HasAnyMarker(row) ==
    Search(SECTION_START, RowText(row)).ok \/ Search(SECTION_END, RowText(row)).ok

\* the row of the table that has the identity id, if it is still there
InTable(id) == \E n \in 1..Len(TableRows(tbl)) : TableRows(tbl)[n].id = id

RowById(id) ==
    TableRows(tbl)[CHOOSE n \in 1..Len(TableRows(tbl)) : TableRows(tbl)[n].id = id]

\* the value of the section is absent or a list of mappings
IsItemList(data, name) ==
    \/ ~HasKey(data, name)
    \/ LET val == DictGet(data, name, ListV(<< >>))
       IN  val.t = "list" /\ \A n \in 1..Len(val.v) : IsDict(val.v[n])

\* the number of items of the section, a missing key counting as none
ItemCount(data, name) ==
    IF HasKey(data, name) THEN Len(DictGet(data, name, ListV(<< >>)).v) ELSE 0

\* the scan stands on a row whose first start marker is for section name and
\* j is the lowest index above i of a row whose first end marker is for name
MatchedAt(name, j) ==
    LET rows == TableRows(tbl)
        IsEnd(k) == LET end == Search(SECTION_END, RowText(rows[k + 1]))
                    IN  end.ok /\ end.grp = name
    IN  /\ pc = "expand"
        /\ i < Len(rows)
        /\ j \in (i + 1)..(Len(rows) - 1)
        /\ StartOf(tbl, i).ok
        /\ StartOf(tbl, i).grp = name
        /\ IsEnd(j)
        /\ \A k \in (i + 1)..(j - 1) : ~IsEnd(k)

\* a step of the scan loop of _expand_table_sections
ScanStep == pc = "expand" /\ i < Len(TableRows(tbl)) /\ vars' # vars

(***************************************************************************)
(* C1: when the scan expands the section between rows i and j, with R      *)
(* template rows and a list of N items, the table afterwards is the rows   *)
(* before i unchanged, then N*R new rows, the clone of template row r for  *)
(* item k at place (k-1)*R + r, then the rows after j unchanged; it has    *)
(* the old number of rows minus (j - i + 1) plus N*R.                      *)
(***************************************************************************)
C1_Post(name, j) ==
    LET rows == TableRows(tbl)
        after == TableRows(tbl')
        R == IF j = i + 1 THEN 1 ELSE j - i - 1
        N == ItemCount(ctx, name)
        T == IF j = i + 1 THEN <<rows[i + 1].id>> ELSE Ids(SubSeq(rows, i + 2, j))
    IN  /\ Len(after) = Len(rows) - (j - i + 1) + N * R
        /\ \A n \in 1..i : after[n] = rows[n]
        /\ \A q \in 1..(N * R) :
              /\ after[i + q].item = ((q - 1) \div R) + 1
              /\ after[i + q].src = T[((q - 1) % R) + 1]
              /\ after[i + q].id \notin Range(Ids(rows))
        /\ \A n \in 1..(Len(rows) - (j + 1)) : after[i + N * R + n] = rows[j + 1 + n]

C1_ExpansionSplices ==
    [][ScanStep =>
          \A name \in SectionNames : \A j \in 1..Len(TableRows(tbl)) :
              (MatchedAt(name, j) /\ IsItemList(ctx, name)) => C1_Post(name, j)]_vars

\* a section with two template rows and two items has been expanded
C1_Witness ==
    \E n \in 1..Len(log) :
        /\ Len(log[n].template) = 2
        /\ Len(log[n].clones) = 4
        /\ \A c \in 1..4 : InTable(log[n].clones[c])

(***************************************************************************)
(* C9: from a start marker for name at row i, the end row is the lowest    *)
(* row above i whose text holds an end marker for name, wherever in the    *)
(* text and whatever else the row holds; only without such a row is the    *)
(* section unmatched.                                                      *)
(***************************************************************************)
C9_EndRowIsFirstHolder ==
    [][\A name \in SectionNames : \A j \in 1..Len(TableRows(tbl)) :
          LET rows == TableRows(tbl)
          IN  (/\ ScanStep
               /\ StartOf(tbl, i).ok
               /\ StartOf(tbl, i).grp = name
               /\ j \in (i + 1)..(Len(rows) - 1)
               /\ HasEnd(rows[j + 1], name)
               /\ \A k \in (i + 1)..(j - 1) : ~HasEnd(rows[k + 1], name))
              => \/ pc' = "failed"
                 \/ /\ Len(log') = Len(log) + 1
                    /\ log'[Len(log')].block = Ids(SubSeq(rows, i + 1, j + 1))]_vars

(***************************************************************************)
(* C10: every iteration of the scan loop that does not raise makes         *)
(* (number of rows - i) smaller, and after an expansion the scan stands    *)
(* right behind the last clone, so that no clone lies at or after i.       *)
(***************************************************************************)
C10_ScanDecreases ==
    [][(ScanStep /\ pc' # "failed") =>
          LET after == TableRows(tbl')
          IN  /\ Len(after) - i' < Len(TableRows(tbl)) - i
              /\ i' <= Len(after)
              /\ Len(log') = Len(log) + 1 =>
                    LET made == Range(log'[Len(log')].clones)
                    IN  /\ \A n \in 1..Len(after) :
                              after[n].id \in made <=> (i < n /\ n <= i')
                        /\ i' = i + Cardinality(made)]_vars

\* the scan has ended after skipping an unmatched marker and expanding a
\* section with items
C10_Witness ==
    /\ pc = "headers"
    /\ \E n \in 1..Len(log) : Len(log[n].clones) > 0
    /\ \E n \in 1..Len(TableRows(tbl)) : HasStart(TableRows(tbl)[n], <<"b">>)

(***************************************************************************)
(* Well-formed input: in every paragraph of the template braces occur only *)
(* as the delimiters of placeholder and section-marker tokens, and no      *)
(* string of the context, key or value at any depth, holds a brace.        *)
(***************************************************************************)
RECURSIVE TokensOnlyFrom(_, _)
TokensOnlyFrom(s, p) ==
    IF p > Len(s) THEN TRUE
    ELSE IF s[p] \notin {"{", "}"} THEN TokensOnlyFrom(s, p + 1)
    ELSE LET m1 == MatchAt(PLACEHOLDER, s, p)
             m2 == MatchAt(SECTION_START, s, p)
             m3 == MatchAt(SECTION_END, s, p)
         IN  IF m1.ok THEN TokensOnlyFrom(s, m1.stop)
             ELSE IF m2.ok THEN TokensOnlyFrom(s, m2.stop)
             ELSE IF m3.ok THEN TokensOnlyFrom(s, m3.stop)
             ELSE FALSE

TokensOnly(par) == TokensOnlyFrom(ParaText(par), 1)

NoBrace(s) == \A n \in 1..Len(s) : s[n] \notin {"{", "}"}

RECURSIVE BraceFree(_)
BraceFree(val) ==
    CASE val.t = "str" -> NoBrace(val.v)
      [] val.t = "num" -> TRUE
      [] val.t = "list" -> \A n \in 1..Len(val.v) : BraceFree(val.v[n])
      [] val.t = "map" ->
            \A n \in 1..Len(val.v) : NoBrace(val.v[n].k) /\ BraceFree(val.v[n].v)

WellFormedInput ==
    /\ \A n \in 1..Len(tpl.rows) : \A c \in 1..Len(tpl.rows[n].cells) :
          \A q \in 1..Len(tpl.rows[n].cells[c]) : TokensOnly(tpl.rows[n].cells[c][q])
    /\ \A n \in 1..Len(tpl.body) : TokensOnly(tpl.body[n])
    /\ \A n \in 1..Len(tpl.hdr) : TokensOnly(tpl.hdr[n])
    /\ \A n \in 1..Len(tpl.ftr) : TokensOnly(tpl.ftr[n])
    /\ BraceFree(MapV(ctx))

\* the first call of fill has returned
Filled == pc = "done" /\ fillNo = 1

(***************************************************************************)
(* C2: a matched section whose value is present and not a list of mappings *)
(* makes fill fail with InvalidContextError; fill neither fails with       *)
(* another error nor expands such a section silently.                      *)
(***************************************************************************)
C2_InvalidContextError ==
    /\ pc = "failed" => err = "InvalidContextError"
    /\ \A n \in 1..Len(log) : IsItemList(ctx, log[n].name)

(***************************************************************************)
(* C3: a row with a start marker for a name that no later row ends keeps   *)
(* the marker text through fill, and the table keeps its number of rows.   *)
(***************************************************************************)
\* row n of the template holds a start marker for name and no later row of
\* the template holds the end marker for name
Orphan(n, name) ==
    /\ HasStart(tpl.rows[n], name)
    /\ \A q \in (n + 1)..Len(tpl.rows) : ~HasEnd(tpl.rows[q], name)

C3_Post(n, name) ==
    /\ Len(TableRows(tbl)) = Len(tpl.rows)
    /\ InTable(tpl.rows[n].id)
    /\ HasStart(RowById(tpl.rows[n].id), name)

NoSectionInTemplate ==
    \A n \in 1..Len(tpl.rows) : \A name \in SectionNames :
        HasStart(tpl.rows[n], name) => Orphan(n, name)

C4_Idempotent ==
    (pc = "done" /\ fillNo = 2) => Snapshot(tbl, body, hdr, ftr) = prev

\* C4 as amended: the same, for well-formed input
C4_IdempotentOnWellFormed ==
    (pc = "done" /\ fillNo = 2 /\ WellFormedInput) =>
        Snapshot(tbl, body, hdr, ftr) = prev

\* the second fill of a well-formed template has returned, the first fill
\* having expanded a section into clones and substituted the body
C4_Witness ==
    /\ pc = "done"
    /\ fillNo = 2
    /\ WellFormedInput
    /\ \E n \in 1..Len(log) : Len(log[n].clones) > 0
    /\ ParaText(body[1]) # ParaText(tpl.body[1])

(***************************************************************************)
(* C5: in the filled document the clone made for item k of a section holds *)
(* the template row's text with every placeholder resolved against the     *)
(* item first and the outer context second, whatever the later passes with *)
(* the outer context alone do.                                             *)
(***************************************************************************)
\* a context in which item's keys shadow those of outer
ItemFirst(outer, item) ==
    LET Rest(pair) == ~HasKey(item, pair.k)
    IN  item \o SelectSeq(outer, Rest)

\* the template row with identity id, as loaded
TemplateRow(id) == tpl.rows[CHOOSE n \in 1..Len(tpl.rows) : tpl.rows[n].id = id]

\* the text expected in a paragraph of the clone of template paragraph par
Resolved(par, item) ==
    ReplacePlaceholders(
        SubEmpty(SECTION_END, SubEmpty(SECTION_START, ParaText(par), 1), 1),
        ItemFirst(ctx, item))

C5_ClonesUseMergedContext ==
    Filled =>
        \A n \in 1..Len(log) : \A c \in 1..Len(log[n].clones) :
            LET clone == RowById(log[n].clones[c])
                item == DictGet(ctx, log[n].name, ListV(<< >>)).v[clone.item].v
                from == TemplateRow(clone.src)
            IN  /\ InTable(log[n].clones[c])
                /\ CellTexts(clone.cells)
                      = [x \in 1..Len(from.cells) |->
                            [q \in 1..Len(from.cells[x]) |->
                                Resolved(from.cells[x][q], item)]]

\* a clone of the two-cell template row for an item that defines x and not
\* y, in a document that defines both: the item's x, the document's y
C5_Witness ==
    /\ Filled
    /\ \E n \in 1..Len(TableRows(tbl)) :
          /\ TableRows(tbl)[n].item = 1
          /\ CellTexts(TableRows(tbl)[n].cells) = << <<<<"A">>>>, <<<<"7">>>> >>
    /\ Lookup(<<"x">>, ctx) = <<"O">>

(***************************************************************************)
(* C6: after fill, for every section that was matched, neither of its two  *)
(* marker rows is in the table and no row holds its markers.               *)
(***************************************************************************)
MarkerRowsGone(e) ==
    /\ ~InTable(e.block[1])
    /\ ~InTable(e.block[Len(e.block)])

RECURSIVE ValueAt(_, _, _)
\* the value the first n segments lead to, when each of them resolves
ValueAt(data, parts, n) ==
    IF n = 0 THEN MapV(data)
    ELSE DictGet(ValueAt(data, parts, n - 1).v, parts[n], StrV(<< >>))

Resolves(data, parts, n) ==
    \A m \in 1..n :
        /\ IsDict(ValueAt(data, parts, m - 1))
        /\ HasKey(ValueAt(data, parts, m - 1).v, parts[m])

C7_LookupTotal ==
    pc = "returned" =>
        LET parts == SplitDot(lkPath, 1, << >>)
        IN  IF Resolves(ctx, parts, Len(parts))
            THEN lkRes = PyStr(ValueAt(ctx, parts, Len(parts)))
            ELSE lkRes = << >>

\* the nested path m.n has been resolved to its value
C7_Witness ==
    /\ pc = "returned"
    /\ lkPath = <<"m", ".", "n">>
    /\ lkRes = <<"V">>

(***************************************************************************)
(* C8: a start marker {{#b}} in a row between a matched start marker and   *)
(* its end marker is treated as an unmatched marker.                       *)
(***************************************************************************)
\* template row id lies strictly inside the block of e and holds a start
\* marker for name
NestedStart(e, id, name) ==
    /\ Len(e.block) > 2
    /\ \E n \in 2..(Len(e.block) - 1) : e.block[n] = id
    /\ HasStart(TemplateRow(id), name)

=============================================================================
